---- MODULE Spec2Model ----
(***************************************************************************)
(* HTTP content negotiation (scotow/http-negotiator).                      *)
(*                                                                         *)
(* A Negotiator is built once from a list of supported values and then     *)
(* answers negotiate(header) calls.  Three negotiation kinds share the     *)
(* Negotiator skeleton: media types ("ct"), encodings ("enc") and          *)
(* languages ("lang").                                                     *)
(*                                                                         *)
(* Strings are sequences of one-character strings, so that splitting,      *)
(* trimming and number parsing are computed as the code computes them.     *)
(***************************************************************************)
EXTENDS Integers, Sequences, FiniteSets, TLC

(***************************************************************************)
(* Bounds of the model.                                                    *)
(***************************************************************************)
\* values handed to Negotiator::new
MaxSupported == 2
\* entries of a header handed to negotiate
MaxEntries == 2
\* entries of a header handed to parse_sort_header on its own
MaxSortEntries == 3
\* parameters written after the value of one generated entry
MaxParams == 2
\* values registered before a generated header is negotiated
MaxRegistered == 1
\* concurrent callers of the shared negotiators, one negotiate call each
MaxCallers == 3
\* entries of a header whose entries differ in their q
MaxQEntries == 2

(***************************************************************************)
(* Result<T, Error> and Option<T>.                                         *)
(***************************************************************************)
Ok(v) == [ok |-> TRUE, val |-> v, err |-> "none"]
Err(e) == [ok |-> FALSE, val |-> <<>>, err |-> e]
Some(v) == [some |-> TRUE, val |-> v]
None == [some |-> FALSE, val |-> <<>>]

(***************************************************************************)
(* str helpers of the Rust standard library, as used by the parsers.       *)
(***************************************************************************)
contains(s, c) == \E i \in 1..Len(s) : s[i] = c

\* where the first character of s that is in cs is, 0 if there is none
first_of(s, cs) ==
  IF \E i \in 1..Len(s) : s[i] \in cs
  THEN CHOOSE i \in 1..Len(s) : s[i] \in cs /\ \A j \in 1..(i - 1) : s[j] \notin cs
  ELSE 0

RECURSIVE split(_, _)
split(s, c) ==
  LET i == first_of(s, {c}) IN
  IF i = 0 THEN <<s>>
  ELSE <<SubSeq(s, 1, i - 1)>> \o split(SubSeq(s, i + 1, Len(s)), c)

split_once(s, c) ==
  LET i == first_of(s, {c}) IN
  IF i = 0 THEN None
  ELSE Some(<<SubSeq(s, 1, i - 1), SubSeq(s, i + 1, Len(s))>>)

\* the characters with the Unicode property White_Space: U+0020, U+0009 to
\* U+000D, U+0085, U+00A0 and U+1680 (those from U+2000 on are not
\* characters a string of a module can hold)
WhiteSpace ==
  {" ", "\t", "\n", "\r", "\f", "", "", " ", " "}

\* str::trim: leading and trailing white space removed
trim(s) ==
  LET keep == {i \in 1..Len(s) : s[i] \notin WhiteSpace} IN
  IF keep = {} THEN <<>>
  ELSE LET lo == CHOOSE i \in keep : \A j \in keep : i <= j
           hi == CHOOSE i \in keep : \A j \in keep : j <= i
       IN SubSeq(s, lo, hi)

RECURSIVE map_trim(_)
map_trim(ss) == IF ss = <<>> THEN <<>> ELSE <<trim(Head(ss))>> \o map_trim(Tail(ss))

(***************************************************************************)
(* f32 values.  A quality is kept as the sign and the other 31 bits of its *)
(* binary32 pattern, exponent above mantissa: the order of the patterns is *)
(* the order of the magnitudes, with Inf above every finite value and NaN  *)
(* above Inf, which is their place in the IEEE 754 total order.            *)
(***************************************************************************)
TwoTo23 == 8388608
MinExp == 0 - 149
InfMag == 255 * TwoTo23
NaNMag == InfMag + TwoTo23 \div 2
DigitVal(d) ==
  CASE d = "0" -> 0 [] d = "1" -> 1 [] d = "2" -> 2 [] d = "3" -> 3 [] d = "4" -> 4
    [] d = "5" -> 5 [] d = "6" -> 6 [] d = "7" -> 7 [] d = "8" -> 8 [] d = "9" -> 9

F32(neg, mag) == [neg |-> neg, mag |-> mag]
One == F32(FALSE, 127 * TwoTo23)

all_digits(ds) ==
  \A i \in 1..Len(ds) : ds[i] \in {"0", "1", "2", "3", "4", "5", "6", "7", "8", "9"}
zeros(n) == [i \in 1..n |-> "0"]
\* ds: the digits without the zeros before the first and after the last
\* digit that is not 0; shift: how many zeros were after it
strip_zeros(ds) ==
  IF \A i \in 1..Len(ds) : ds[i] = "0" THEN [ds |-> <<>>, shift |-> 0]
  ELSE [ds |-> SubSeq(ds,
                      CHOOSE i \in 1..Len(ds) :
                        ds[i] # "0" /\ \A j \in 1..(i - 1) : ds[j] = "0",
                      CHOOSE i \in 1..Len(ds) :
                        ds[i] # "0" /\ \A j \in (i + 1)..Len(ds) : ds[j] = "0"),
        shift |-> Len(ds) - (CHOOSE i \in 1..Len(ds) :
                               ds[i] # "0" /\ \A j \in (i + 1)..Len(ds) : ds[j] = "0")]
RECURSIVE int_value(_)
int_value(ds) ==
  IF ds = <<>> THEN 0
  ELSE 10 * int_value(SubSeq(ds, 1, Len(ds) - 1)) + DigitVal(ds[Len(ds)])

\* the pattern of the value m * 2^e, m below 2^24 and rounded already;
\* a value above the greatest finite one is the infinity
bits_of(e, m) ==
  IF e - MinExp > 253 \/ (e - MinExp) * TwoTo23 + m >= InfMag THEN InfMag
  ELSE (e - MinExp) * TwoTo23 + m

\* natural numbers of any size: limbs of 8 digits in base 10^8, the lowest
\* first
Limb == 10000 * 10000
to_big(ds, w) ==
  SubSeq([i \in 1..w |->
            int_value(SubSeq(ds,
                             IF Len(ds) - 8 * i + 1 > 1 THEN Len(ds) - 8 * i + 1 ELSE 1,
                             Len(ds) - 8 * (i - 1)))],
         1, w)
big_double(a) ==
  SubSeq([i \in 1..Len(a) |->
            ((2 * a[i]) % Limb) + (IF i > 1 /\ a[i - 1] >= Limb \div 2 THEN 1 ELSE 0)],
         1, Len(a))
big_lt(a, b) ==
  \E i \in 1..Len(a) : a[i] < b[i] /\ \A j \in (i + 1)..Len(a) : a[j] = b[j]
\* a - b for a >= b; a limb borrows when the limbs below it are less
big_sub(a, b) ==
  SubSeq([i \in 1..Len(a) |->
            (a[i] - b[i] + Limb
               - (IF \E k \in 1..(i - 1) :
                       a[k] < b[k] /\ \A j \in (k + 1)..(i - 1) : a[j] = b[j]
                  THEN 1 ELSE 0)) % Limb],
         1, Len(a))
\* a * m for a small m, the carry passed from limb to limb
RECURSIVE big_mul(_, _, _)
big_mul(a, m, carry) ==
  IF a = <<>> THEN <<>>
  ELSE <<(a[1] * m + carry) % Limb>> \o big_mul(Tail(a), m, (a[1] * m + carry) \div Limb)

\* the value is (a / c) * 2^(24 + e); c and a are doubled until a / c is
\* in [1/2, 1), or e is the exponent of the subnormals
RECURSIVE normalize(_, _, _)
normalize(a, c, e) ==
  IF ~big_lt(a, c)
    THEN IF ~big_lt(a, big_mul(c, 16, 0)) THEN normalize(a, big_mul(c, 16, 0), e + 4)
         ELSE normalize(a, big_double(c), e + 1)
  ELSE IF e - 4 >= MinExp /\ big_lt(big_double(big_mul(a, 16, 0)), c)
    THEN normalize(big_mul(a, 16, 0), c, e - 4)
  ELSE IF e > MinExp /\ big_lt(big_double(a), c) THEN normalize(big_double(a), c, e - 1)
  ELSE [a |-> a, c |-> c, e |-> e]

\* k more bits of the quotient m, r2 twice the remainder; after the last
\* bit m is rounded to nearest, ties to even
RECURSIVE divide(_, _, _, _)
divide(r2, c, m, k) ==
  IF k = 0 THEN (IF big_lt(c, r2) THEN m + 1 ELSE IF big_lt(r2, c) THEN m ELSE m + (m % 2))
  ELSE IF big_lt(r2, c) THEN divide(big_double(r2), c, 2 * m, k - 1)
  ELSE divide(big_double(big_sub(r2, c)), c, 2 * m + 1, k - 1)

\* n: the normalized operands
quotient(n) == bits_of(n.e, divide(big_double(n.a), n.c, 0, 24))

\* the same on integers, for operands of at most 8 digits: three bits of
\* the quotient at a time, and no subnormal result
RECURSIVE normalize_small(_, _, _)
normalize_small(a, c, e) ==
  IF a >= c
    THEN IF a \div 16 >= c THEN normalize_small(a, 16 * c, e + 4)
         ELSE normalize_small(a, 2 * c, e + 1)
  ELSE IF a <= (c - 1) \div 32 THEN normalize_small(16 * a, c, e - 4)
  ELSE IF 2 * a < c THEN normalize_small(2 * a, c, e - 1)
  ELSE [a |-> a, c |-> c, e |-> e]
RECURSIVE divide_small(_, _, _, _)
divide_small(r, c, m, k) ==
  IF k = 0 THEN (IF c < 2 * r THEN m + 1 ELSE IF 2 * r < c THEN m ELSE m + (m % 2))
  ELSE divide_small((8 * r) % c, c, 8 * m + ((8 * r) \div c), k - 1)
quotient_small(n) == bits_of(n.e, divide_small(n.a, n.c, 0, 8))

\* the pattern of the binary32 nearest to a / b, both given as decimal
\* digits
ratio(a, b) ==
  IF Len(a) <= 8 /\ Len(b) <= 8
  THEN quotient_small(normalize_small(int_value(a), int_value(b), 0 - 24))
  ELSE quotient(normalize(to_big(a, ((IF Len(a) > Len(b) THEN Len(a) ELSE Len(b)) + 10) \div 8),
                          to_big(b, ((IF Len(a) > Len(b) THEN Len(a) ELSE Len(b)) + 10) \div 8),
                          0 - 24))

\* ds: the digits from the first to the last that is not 0; e10: the
\* decimal exponent of the last digit.  Above 10^39 every value is the infinity, below 10^-46 zero.
decimal_bits(ds, e10) ==
  IF ds = <<>> THEN 0
  ELSE IF Len(ds) - 1 + e10 >= 39 THEN InfMag
  ELSE IF Len(ds) + e10 <= 0 - 46 THEN 0
  ELSE IF e10 >= 0 THEN ratio(ds \o zeros(e10), <<"1">>)
  ELSE ratio(ds, <<"1">> \o zeros(0 - e10))

\* the digits of the exponent: a digit is added while the number is below
\* 65536 (0x10000), the digits after that are read and dropped
RECURSIVE exp_value(_, _)
exp_value(ds, acc) ==
  IF ds = <<>> \/ acc >= 65536 THEN acc
  ELSE exp_value(Tail(ds), 10 * acc + DigitVal(ds[1]))

\* [sign] digits+
parse_exponent(x) ==
  IF x # <<>> /\ x[1] \in {"+", "-"}
  THEN IF Len(x) > 1 /\ all_digits(Tail(x))
       THEN Ok((IF x[1] = "-" THEN 0 - 1 ELSE 1) * exp_value(Tail(x), 0))
       ELSE Err("InvalidQuality")
  ELSE IF x # <<>> /\ all_digits(x) THEN Ok(exp_value(x, 0))
  ELSE Err("InvalidQuality")

\* digits [ "." digits ] [ exponent ], at least one digit before the
\* exponent; m: the text before the exponent mark, dot: where its first
\* '.' is, 0 if none
parse_decimal(neg, m, dot, ex) ==
  IF ~ex.ok THEN ex
  ELSE IF dot = 0
    THEN IF m # <<>> /\ all_digits(m)
         THEN Ok(F32(neg, decimal_bits(strip_zeros(m).ds, ex.val + strip_zeros(m).shift)))
         ELSE Err("InvalidQuality")
  ELSE IF /\ Len(m) > 1
          /\ all_digits(SubSeq(m, 1, dot - 1))
          /\ all_digits(SubSeq(m, dot + 1, Len(m)))
    THEN Ok(F32(neg,
                decimal_bits(strip_zeros(SubSeq(m, 1, dot - 1) \o SubSeq(m, dot + 1, Len(m))).ds,
                             ex.val - (Len(m) - dot)
                               + strip_zeros(SubSeq(m, 1, dot - 1)
                                               \o SubSeq(m, dot + 1, Len(m))).shift)))
  ELSE Err("InvalidQuality")

to_lower(s) ==
  [i \in 1..Len(s) |->
     CASE s[i] = "I" -> "i" [] s[i] = "N" -> "n" [] s[i] = "F" -> "f" [] s[i] = "A" -> "a"
       [] s[i] = "T" -> "t" [] s[i] = "Y" -> "y" [] OTHER -> s[i]]

\* low: the body in lower case; mark: where the first 'e' or 'E' of the
\* body is, 0 if none
parse_unsigned(neg, body, low, mark) ==
  IF low = <<"i", "n", "f">> \/ low = <<"i", "n", "f", "i", "n", "i", "t", "y">>
    THEN Ok(F32(neg, InfMag))
  ELSE IF low = <<"n", "a", "n">>
    THEN Ok(F32(neg, NaNMag))
  ELSE IF mark = 0 THEN parse_decimal(neg, body, first_of(body, {"."}), Ok(0))
  ELSE parse_decimal(neg, SubSeq(body, 1, mark - 1),
                     first_of(SubSeq(body, 1, mark - 1), {"."}),
                     parse_exponent(SubSeq(body, mark + 1, Len(body))))

\* <f32 as FromStr>::from_str: an optional sign, then the body
parse_f32(s) ==
  IF s # <<>> /\ s[1] \in {"+", "-"}
  THEN parse_unsigned(s[1] = "-", Tail(s), to_lower(Tail(s)), first_of(Tail(s), {"e", "E"}))
  ELSE parse_unsigned(FALSE, s, to_lower(s), first_of(s, {"e", "E"}))

\* mutant of total_cmp: NaN compares Equal to everything, the fallback of a
\* partial comparison
total_cmp_partial(a, b) ==
  IF a.mag = NaNMag \/ b.mag = NaNMag THEN 0
  ELSE IF (IF a.neg THEN 0 - a.mag - 1 ELSE a.mag) < (IF b.neg THEN 0 - b.mag - 1 ELSE b.mag)
    THEN 0 - 1
  ELSE IF (IF a.neg THEN 0 - a.mag - 1 ELSE a.mag) > (IF b.neg THEN 0 - b.mag - 1 ELSE b.mag)
    THEN 1
  ELSE 0

\* f32::total_cmp: -1 Less, 0 Equal, 1 Greater
total_key(q) == IF q.neg THEN 0 - q.mag - 1 ELSE q.mag
cmp(a, b) == IF a < b THEN 0 - 1 ELSE IF a > b THEN 1 ELSE 0
total_cmp(a, b) == cmp(total_key(a), total_key(b))
\* Ordering::then_with and Ordering::reverse
then_with(o, p) == IF o # 0 THEN o ELSE p
reverse(o) == 0 - o
bool_rank(b) == IF b THEN 1 ELSE 0

(***************************************************************************)
(* MaybeWildcard<T>: Specific(T) or Wildcard.                              *)
(***************************************************************************)
Specific(t) == [wild |-> FALSE, tok |-> t]
Wildcard == [wild |-> TRUE, tok |-> <<>>]
MaybeWildcard_from_str(t) == IF t = <<"*">> THEN Wildcard ELSE Specific(t)
matches(h, s) == h.wild \/ h.tok = s

(***************************************************************************)
(* Collecting an iterator of Results: the values in order, or the error of *)
(* the first element that failed.                                          *)
(***************************************************************************)
first_err(rs) ==
  rs[CHOOSE i \in 1..Len(rs) : ~rs[i].ok /\ \A j \in 1..(i - 1) : rs[j].ok]

\* mutant of collect: the error of the last element that failed is returned
collect_last_error(rs) ==
  IF \E i \in 1..Len(rs) : ~rs[i].ok
  THEN rs[CHOOSE i \in 1..Len(rs) : ~rs[i].ok /\ \A j \in (i + 1)..Len(rs) : rs[j].ok]
  ELSE Ok([i \in 1..Len(rs) |-> rs[i].val])

collect(rs) ==
  IF \E i \in 1..Len(rs) : ~rs[i].ok THEN first_err(rs)
  ELSE Ok([i \in 1..Len(rs) |-> rs[i].val])

(***************************************************************************)
(* Media types.                                                            *)
(***************************************************************************)
\* BTreeMap collected from (key, value) pairs: a later pair replaces an
\* earlier one with the same key.
last_with_key(pairs, k) ==
  CHOOSE i \in 1..Len(pairs) :
    pairs[i][1] = k /\ \A j \in (i + 1)..Len(pairs) : pairs[j][1] # k

collect_map(pairs) ==
  [k \in {pairs[i][1] : i \in 1..Len(pairs)} |-> pairs[last_with_key(pairs, k)][2]]

\* kv: each parameter split at its first '='
params_of(kv) ==
  IF \E i \in 1..Len(kv) : ~kv[i].some THEN Err("InvalidHeader")
  ELSE Ok(collect_map([i \in 1..Len(kv) |-> kv[i].val]))

parse_params(parts) ==
  params_of([i \in 1..Len(parts) |-> split_once(trim(parts[i]), "=")])

\* mutant of mime_of: a header entry may have a wildcard main part alone
mime_of_wild_main(ms, params, from_header) ==
  IF ~ms.some THEN Err("MissingSeparator")
  ELSE IF contains(ms.val[2], "/") THEN Err("TooManyParts")
  ELSE IF ~from_header /\ (ms.val[1] = <<"*">> \/ ms.val[2] = <<"*">>)
    THEN Err("InvalidWildcard")
  ELSE IF ~params.ok THEN params
  ELSE IF ~from_header /\ <<"q">> \in DOMAIN params.val THEN Err("QualityNotAllowed")
  ELSE Ok([main |-> ms.val[1], sub |-> ms.val[2], params |-> params.val])

\* mutant of mime_of: a supported value may carry a q parameter
mime_of_allow_q(ms, params, from_header) ==
  IF ~ms.some THEN Err("MissingSeparator")
  ELSE IF contains(ms.val[2], "/") THEN Err("TooManyParts")
  ELSE IF from_header /\ ms.val[1] = <<"*">> /\ ms.val[2] # <<"*">>
    THEN Err("InvalidWildcard")
  ELSE IF ~from_header /\ (ms.val[1] = <<"*">> \/ ms.val[2] = <<"*">>)
    THEN Err("InvalidWildcard")
  ELSE IF ~params.ok THEN params
  ELSE Ok([main |-> ms.val[1], sub |-> ms.val[2], params |-> params.val])

\* mutant of mime_of: a supported value may have a wildcard sub part
mime_of_wild_sub(ms, params, from_header) ==
  IF ~ms.some THEN Err("MissingSeparator")
  ELSE IF contains(ms.val[2], "/") THEN Err("TooManyParts")
  ELSE IF ms.val[1] = <<"*">> /\ ms.val[2] # <<"*">> THEN Err("InvalidWildcard")
  ELSE IF ~params.ok THEN params
  ELSE IF ~from_header /\ <<"q">> \in DOMAIN params.val THEN Err("QualityNotAllowed")
  ELSE Ok([main |-> ms.val[1], sub |-> ms.val[2], params |-> params.val])

\* ms: the value split at its first '/'; params: the parsed parameters
mime_of(ms, params, from_header) ==
  IF ~ms.some THEN Err("MissingSeparator")
  ELSE IF contains(ms.val[2], "/") THEN Err("TooManyParts")
  ELSE IF from_header /\ ms.val[1] = <<"*">> /\ ms.val[2] # <<"*">>
    THEN Err("InvalidWildcard")
  ELSE IF ~from_header /\ (ms.val[1] = <<"*">> \/ ms.val[2] = <<"*">>)
    THEN Err("InvalidWildcard")
  ELSE IF ~params.ok THEN params
  ELSE IF ~from_header /\ <<"q">> \in DOMAIN params.val THEN Err("QualityNotAllowed")
  ELSE Ok([main |-> ms.val[1], sub |-> ms.val[2], params |-> params.val])

mime_of_parts(parts, from_header) ==
  mime_of(split_once(trim(parts[1]), "/"), parse_params(Tail(parts)), from_header)

parse_mime(mime, from_header) == mime_of_parts(split(mime, ";"), from_header)

\* q: the parsed q parameter, 1.0 when there is none.  The quality is
\* returned together with the map q was removed from.
quality_of(params, q) ==
  IF ~q.ok THEN q
  ELSE Ok([q |-> q.val, params |-> [k \in (DOMAIN params) \ {<<"q">>} |-> params[k]]])

extract_quality(params) ==
  quality_of(params,
             IF <<"q">> \in DOMAIN params THEN parse_f32(params[<<"q">>]) ELSE Ok(One))

mime_precision_score(main, sub) ==
  IF main.wild /\ sub.wild THEN 0 ELSE IF sub.wild THEN 1 ELSE 2

ct_entry_of(mime, q) ==
  IF ~q.ok THEN q
  ELSE Ok([key |-> [main |-> MaybeWildcard_from_str(mime.main),
                    sub |-> MaybeWildcard_from_str(mime.sub),
                    params |-> q.val.params],
           q |-> q.val.q])

ct_entry_of_mime(mime) ==
  IF ~mime.ok THEN mime ELSE ct_entry_of(mime.val, extract_quality(mime.val.params))

ct_parse_header_entry(m) == ct_entry_of_mime(parse_mime(trim(m), TRUE))

ct_compare(l, r) ==
  reverse(then_with(then_with(total_cmp(l.q, r.q),
                              cmp(mime_precision_score(l.key.main, l.key.sub),
                                  mime_precision_score(r.key.main, r.key.sub))),
                    cmp(Cardinality(DOMAIN l.key.params), Cardinality(DOMAIN r.key.params))))

ct_parse_elem(raw) == parse_mime(raw, FALSE)

\* mutants of ct_is_match: a header entry may carry parameters the supported
\* type lacks; parameters are not compared at all
ct_is_match_subset(s, h) ==
  /\ matches(h.main, s.main) /\ matches(h.sub, s.sub)
  /\ DOMAIN s.params \subseteq DOMAIN h.params
  /\ \A k \in DOMAIN s.params : s.params[k] = h.params[k]

ct_is_match_ignore_params(s, h) ==
  matches(h.main, s.main) /\ matches(h.sub, s.sub)

ct_is_match(s, h) ==
  matches(h.main, s.main) /\ matches(h.sub, s.sub) /\ s.params = h.params

(***************************************************************************)
(* Encodings.                                                              *)
(***************************************************************************)
enc_parse_elem(input) ==
  IF contains(input, ";") THEN Err("ParamsNotAllowed")
  ELSE IF input = <<"*">> THEN Err("InvalidWildcard")
  ELSE Ok(input)

\* mutant of entry_of: a q that is no number counts as 1.0
entry_of_default_on_bad(key, q) == Ok([key |-> key, q |-> IF q.ok THEN q.val ELSE One])

\* key: the parsed token; q: the parsed value of the q parameter
entry_of(key, q) == IF ~q.ok THEN q ELSE Ok([key |-> key, q |-> q.val])

\* kv: the first parameter split at its first '='
enc_entry_of(parts, kv) ==
  IF ~kv.some THEN Err("InvalidHeader")
  ELSE IF kv.val[1] # <<"q">> \/ Len(parts) > 2 THEN Err("ParamsNotAllowed")
  ELSE entry_of(MaybeWildcard_from_str(parts[1]), parse_f32(kv.val[2]))

\* parts: the entry split at ';', each part trimmed
enc_entry_of_parts(parts) ==
  IF Len(parts) < 2 THEN Ok([key |-> MaybeWildcard_from_str(parts[1]), q |-> One])
  ELSE enc_entry_of(parts, split_once(parts[2], "="))

enc_parse_header_entry(entry) == enc_entry_of_parts(map_trim(split(entry, ";")))

\* mutant of enc_compare: at equal quality the wildcard ranks below a token
enc_compare_wild_last(l, r) ==
  reverse(then_with(total_cmp(l.q, r.q), cmp(bool_rank(r.key.wild), bool_rank(l.key.wild))))

enc_compare(l, r) == reverse(total_cmp(l.q, r.q))

\* mutant of enc_is_match: the wildcard is compared like any token
enc_is_match_exact(s, h) == h.tok = s

enc_is_match(s, h) == matches(h, s)

(***************************************************************************)
(* Languages.                                                              *)
(***************************************************************************)
\* mutant of lang_key_of: the separator is looked for before the ';'
lang_key_of_separator_first(input, ms) ==
  IF ~ms.some THEN Err("MissingSeparator")
  ELSE IF contains(input, ";") THEN Err("ParamsNotAllowed")
  ELSE Ok([main |-> ms.val[1], sub |-> ms.val[2]])

lang_key_of(input, ms) ==
  IF contains(input, ";") THEN Err("ParamsNotAllowed")
  ELSE IF ~ms.some THEN Err("MissingSeparator")
  ELSE Ok([main |-> ms.val[1], sub |-> ms.val[2]])

lang_parse_elem(input) == lang_key_of(input, split_once(input, "-"))

\* ms: the tag split at its first '-'
lang_header_key(left, ms) ==
  IF ms.some THEN [main |-> ms.val[1], sub |-> Specific(ms.val[2])]
  ELSE [main |-> left, sub |-> Wildcard]

\* kv: the first parameter split at its first '='; later parameters are not
\* looked at
lang_entry_of(key, kv) ==
  IF ~kv.some THEN Err("InvalidHeader")
  ELSE IF kv.val[1] # <<"q">> THEN Err("ParamsNotAllowed")
  ELSE entry_of(key, parse_f32(kv.val[2]))

\* parts: the entry split at ';', each part trimmed
lang_entry_of_parts(parts) ==
  IF Len(parts) < 2
  THEN Ok([key |-> lang_header_key(parts[1], split_once(parts[1], "-")), q |-> One])
  ELSE lang_entry_of(lang_header_key(parts[1], split_once(parts[1], "-")),
                     split_once(parts[2], "="))

lang_parse_header_entry(entry) == lang_entry_of_parts(map_trim(split(entry, ";")))

\* mutant of lang_compare: only the quality is compared
lang_compare_quality_only(l, r) == reverse(total_cmp(l.q, r.q))

lang_compare(l, r) ==
  reverse(then_with(total_cmp(l.q, r.q),
                    cmp(bool_rank(r.key.sub.wild), bool_rank(l.key.sub.wild))))

\* mutant of lang_is_match: the primary "*" matches every language
lang_is_match_star(s, h) ==
  h.main = <<"*">> \/ (s.main = h.main /\ matches(h.sub, s.sub))

\* mutant of lang_is_match: a missing region is compared like a region
lang_is_match_no_wildcard(s, h) == s.main = h.main /\ h.sub.tok = s.sub

lang_is_match(s, h) == s.main = h.main /\ matches(h.sub, s.sub)

(***************************************************************************)
(* NegotiationType: the three kinds behind one interface.                  *)
(***************************************************************************)
parse_elem(kind, input) ==
  CASE kind = "ct" -> ct_parse_elem(input)
    [] kind = "enc" -> enc_parse_elem(input)
    [] kind = "lang" -> lang_parse_elem(input)

parse_header_entry(kind, entry) ==
  CASE kind = "ct" -> ct_parse_header_entry(entry)
    [] kind = "enc" -> enc_parse_header_entry(entry)
    [] kind = "lang" -> lang_parse_header_entry(entry)

compare(kind, l, r) ==
  CASE kind = "ct" -> ct_compare(l, r)
    [] kind = "enc" -> enc_compare(l, r)
    [] kind = "lang" -> lang_compare(l, r)

is_match(kind, s, h) ==
  CASE kind = "ct" -> ct_is_match(s, h)
    [] kind = "enc" -> enc_is_match(s, h)
    [] kind = "lang" -> lang_is_match(s, h)

\* es: the header split at ','
parse_entries(kind, es) == [i \in 1..Len(es) |-> parse_header_entry(kind, es[i])]

\* mutant of parse_header: entries that fail to parse are skipped
parse_header_skip_bad(kind, header) ==
  collect(parse_entries(kind, SelectSeq(split(header, ","),
                                        LAMBDA e : parse_header_entry(kind, e).ok)))

\* header.split(',').map(parse).collect::<Result<Vec<_>, _>>(): the entries in
\* written order, or the error of the leftmost entry that fails.
parse_header(kind, header) == collect(parse_entries(kind, split(header, ",")))

\* mutant of insert_sorted: an element is placed before the elements it ties
\* with, which a sort that is not stable may do
RECURSIVE insert_sorted_unstable(_, _, _)
insert_sorted_unstable(kind, s, x) ==
  IF s = <<>> THEN <<x>>
  ELSE IF compare(kind, Head(s), x) < 0
    THEN <<Head(s)>> \o insert_sorted_unstable(kind, Tail(s), x)
  ELSE <<x>> \o s

\* slice::sort_by is a stable sort: an element is placed after every element
\* that does not compare Greater than it.
RECURSIVE insert_sorted(_, _, _)
insert_sorted(kind, s, x) ==
  IF s = <<>> THEN <<x>>
  ELSE IF compare(kind, Head(s), x) <= 0
    THEN <<Head(s)>> \o insert_sorted(kind, Tail(s), x)
  ELSE <<x>> \o s

RECURSIVE sort_by(_, _)
sort_by(kind, s) ==
  IF s = <<>> THEN <<>>
  ELSE insert_sorted(kind, sort_by(kind, SubSeq(s, 1, Len(s) - 1)), s[Len(s)])

sort_parsed(kind, parsed) == IF ~parsed.ok THEN parsed ELSE Ok(sort_by(kind, parsed.val))

parse_sort_header(kind, header) == sort_parsed(kind, parse_header(kind, header))

(***************************************************************************)
(* Negotiator.                                                             *)
(***************************************************************************)
\* rs: the result of parse_elem for each value, in input order
pairs_of(values, rs) ==
  IF \E i \in 1..Len(rs) : ~rs[i].ok THEN first_err(rs)
  ELSE Ok([i \in 1..Len(values) |-> [key |-> rs[i].val, value |-> values[i]]])

\* mutant of new: the values are parsed from the last to the first, so the
\* error of the last invalid value is returned
new_last_error(kind, values) ==
  IF \E i \in 1..Len(values) : ~parse_elem(kind, values[i].str).ok
  THEN parse_elem(kind, values[CHOOSE i \in 1..Len(values) :
                                  /\ ~parse_elem(kind, values[i].str).ok
                                  /\ \A j \in (i + 1)..Len(values) :
                                       parse_elem(kind, values[j].str).ok].str)
  ELSE Ok([i \in 1..Len(values) |->
             [key |-> parse_elem(kind, values[i].str).val, value |-> values[i]]])

\* Negotiator::new: every value parsed in input order; the first error wins.
new(kind, values) ==
  pairs_of(values, [i \in 1..Len(values) |-> parse_elem(kind, values[i].str)])

\* mutant of first_match: the last registered match is kept
RECURSIVE first_match_last(_, _, _)
first_match_last(kind, supported, h) ==
  IF supported = <<>> THEN None
  ELSE IF is_match(kind, supported[Len(supported)].key, h)
    THEN Some(supported[Len(supported)].value)
  ELSE first_match_last(kind, SubSeq(supported, 1, Len(supported) - 1), h)

\* mutant of first_match: a match is passed over when a later pair has the
\* same key
RECURSIVE first_match_skip_shadowing(_, _, _)
first_match_skip_shadowing(kind, supported, h) ==
  IF supported = <<>> THEN None
  ELSE IF /\ is_match(kind, Head(supported).key, h)
          /\ \A j \in 2..Len(supported) : supported[j].key # Head(supported).key
    THEN Some(Head(supported).value)
  ELSE first_match_skip_shadowing(kind, Tail(supported), h)

\* inner loop of negotiate: the supported list in registration order
RECURSIVE first_match(_, _, _)
first_match(kind, supported, h) ==
  IF supported = <<>> THEN None
  ELSE IF is_match(kind, Head(supported).key, h) THEN Some(Head(supported).value)
  ELSE first_match(kind, Tail(supported), h)

\* hit: what the inner loop found for the first of mimes
RECURSIVE scan_entries(_, _, _)
next_entry(kind, supported, mimes, hit) ==
  IF hit.some THEN hit ELSE scan_entries(kind, supported, Tail(mimes))

\* mutant of scan_entries: only the best entry is tried
scan_entries_best_only(kind, supported, mimes) ==
  IF mimes = <<>> THEN None ELSE first_match(kind, supported, Head(mimes).key)

\* outer loop of negotiate: the header entries in sorted order
scan_entries(kind, supported, mimes) ==
  IF mimes = <<>> THEN None
  ELSE next_entry(kind, supported, mimes, first_match(kind, supported, Head(mimes).key))

\* mutant of negotiate_sorted: entries whose quality is not above 0 are not
\* tried
negotiate_sorted_positive_only(kind, supported, mimes) ==
  IF ~mimes.ok THEN mimes
  ELSE Ok(scan_entries(kind, supported,
                       SelectSeq(mimes.val, LAMBDA m : ~m.q.neg /\ m.q.mag > 0)))

negotiate_sorted(kind, supported, mimes) ==
  IF ~mimes.ok THEN mimes ELSE Ok(scan_entries(kind, supported, mimes.val))

negotiate(kind, supported, header) ==
  negotiate_sorted(kind, supported, parse_sort_header(kind, header))

(***************************************************************************)
(* Inputs.  Values a caller registers and entries a client writes, per     *)
(* kind; t/p stands for text/plain, a/j for application/json, g and c for  *)
(* gzip and compress, e-U for en-US, f-F for fr-FR.                        *)
(***************************************************************************)
CtValues ==
  { <<"t", "/", "p">>,
    <<"a", "/", "j">>,
    <<"t", "/", "p", ";", "x", "=", "1">>,
    <<"t", "/", "p", ";", "\t", "x", "=", "1">>,
    <<"t", "/", "*">>,
    <<"t", "/", "p", ";", "q", "=", "1">>,
    <<"t">> }

CtEntries ==
  { <<"t", "/", "p">>,
    <<"a", "/", "j">>,
    <<"t", "/", "*">>,
    <<"*", "/", "*">>,
    <<"t", "/", "p", ";", "x", "=", "1">>,
    <<"t", "/", "p", ";", "q", "=", "0", ".", "5">>,
    <<"\t", "t", "/", "p", ";", " ", "q", "=", "0", ".", "5", ";", "x", "=", "1">>,
    <<"t">>,
    <<"a", "/", "j", ";", "q", "=", "x">> }

EncValues ==
  { <<"g">>,
    <<"c">>,
    <<"g", " ">>,
    <<"g", ";", "q", "=", "1">>,
    <<"*">> }

EncEntries ==
  { <<"g">>,
    <<"c">>,
    <<"b">>,
    <<"*">>,
    <<"g", ";", "q", "=", "0", ".", "5">>,
    <<" ", "c", ";", "\t", "q", "=", "0", ".", "9">>,
    <<"g", ";", "x", "=", "1">>,
    <<"c", ";", "q">> }

LangValues ==
  { <<"e", "-", "U">>,
    <<"e", "-", "G">>,
    <<"f", "-", "F">>,
    <<"e">>,
    <<"e", "-", "U", ";", "q", "=", "1">> }

LangEntries ==
  { <<"e">>,
    <<"e", "-", "U">>,
    <<"f", "-", "F">>,
    <<"f">>,
    <<"e", "-", "*">>,
    <<"e", ";", "q", "=", "0", ".", "5">>,
    <<"\t", "e", "-", "G", ";", " ", "q", "=", "5", "e", "-", "1">>,
    <<"f", ";", "x", "=", "1">>,
    <<"e", "-", "U", ";", "q">> }

Values(k) == CASE k = "ct" -> CtValues [] k = "enc" -> EncValues [] k = "lang" -> LangValues
Entries(k) == CASE k = "ct" -> CtEntries [] k = "enc" -> EncEntries [] k = "lang" -> LangEntries

\* the header a client sends: its entries joined by commas
RECURSIVE join(_)
join(es) ==
  IF Len(es) = 1 THEN es[1] ELSE es[1] \o <<",">> \o join(Tail(es))

\* the caller's values: each carries its own identity next to its string
tagged(strs) == [i \in 1..Len(strs) |-> [id |-> i, str |-> strs[i]]]

(***************************************************************************)
(* Generated inputs: a value part followed by up to MaxParams parameters,  *)
(* each introduced by ';'.  The value parts and parameters include the     *)
(* malformed ones: wildcards in either position, no or two separators, the *)
(* empty string, a q that is no number, a parameter without '='.           *)
(***************************************************************************)
CtHeads ==
  { <<"t", "/", "p">>,
    <<"t", "/", "*">>,
    <<"*", "/", "*">>,
    <<"*", "/", "p">>,
    <<"t">>,
    <<"t", "/", "p", "/", "x">>,
    <<>> }

EncHeads ==
  { <<"g">>,
    <<"*">>,
    <<>> }

LangHeads ==
  { <<"e", "-", "U">>,
    <<"e">>,
    <<"e", "-", "*">>,
    <<"*">>,
    <<>> }

Heads(k) == CASE k = "ct" -> CtHeads [] k = "enc" -> EncHeads [] k = "lang" -> LangHeads

Params ==
  { <<"q", "=", "0", ".", "5">>,
    <<"\t", "q", "=", "5", "e", "-", "1">>,
    <<"q", "=", "x">>,
    <<"x", "=", "1">>,
    <<"x">> }

RECURSIVE with_params(_, _)
with_params(head, ps) ==
  IF ps = <<>> THEN head ELSE with_params(head \o <<";">> \o Head(ps), Tail(ps))

\* a head followed by up to MaxParams parameters
Generated(k) ==
  {with_params(h, ps) : h \in Heads(k),
                        ps \in UNION {[1..n -> Params] : n \in 0..MaxParams}}

\* a well-formed value of the kind, also a well-formed header entry
Good(k) ==
  CASE k = "ct" -> <<"t", "/", "p">> [] k = "enc" -> <<"g">> [] k = "lang" -> <<"e", "-", "U">>

\* a generated entry alone, or with a well-formed entry before it, after it
\* or both
GeneratedHeaders(k) ==
  UNION {{e, join(<<Good(k), e>>), join(<<e, Good(k)>>), join(<<Good(k), e, Good(k)>>)} :
           e \in Generated(k)}

\* a generated value alone, or after a well-formed value
GeneratedLists(k) ==
  UNION {{<<v>>, <<Good(k), v>>} : v \in Generated(k)}

(***************************************************************************)
(* State.                                                                  *)
(***************************************************************************)
VARIABLES
  kind,       \* the NegotiationType of the negotiator
  status,     \* "start", "built", "failed" (new returned Err), "answered"
              \* (a negotiate call has returned and its result is in use),
              \* "sorted" (parse_sort_header was called on its own)
  given,      \* the values handed to Negotiator::new
  supported,  \* Negotiator.supported: the (key, value) pairs
  new_err,    \* the error Negotiator::new returned
  header,     \* the header of the last negotiate call
  sorted,     \* what parse_sort_header returned in the last negotiate call
  result,     \* what the last negotiate call returned
  twin,       \* a second Negotiator built from the same values
  calls,      \* the negotiate calls in progress, one per caller
  request,    \* the header field of the kind in the last extracted request
  response    \* what the extractor made of the last request

vars ==
  <<kind, status, given, supported, new_err, header, sorted, result, twin, calls,
    request, response>>

NoCall == Err("none")
\* HeaderMap::get: the field is absent, or holds bytes
NoHeader == [present |-> FALSE, bytes |-> <<>>]
HeaderBytes(b) == [present |-> TRUE, bytes |-> b]

Init ==
  /\ kind \in {"ct", "enc", "lang"}
  /\ status = "start"
  /\ given = <<>>
  /\ supported = <<>>
  /\ new_err = "none"
  /\ header = <<>>
  /\ sorted = NoCall
  /\ result = NoCall
  /\ twin = <<>>
  /\ calls = <<>>
  /\ request = NoHeader
  /\ response = [kind |-> "none", value |-> <<>>, status |-> 0, why |-> "none"]

\* built: what Negotiator::new returns for the values
NewWith(values, built) ==
  /\ given' = values
  /\ status' = IF built.ok THEN "built" ELSE "failed"
  /\ supported' = IF built.ok THEN built.val ELSE <<>>
  /\ new_err' = built.err

New ==
  /\ status = "start"
  /\ \E n \in 0..MaxSupported : \E strs \in [1..n -> Values(kind)] :
       NewWith(tagged(strs), new(kind, tagged(strs)))
  /\ UNCHANGED <<kind, header, sorted, result, twin, calls, request, response>>

\* the headers a client may send: up to MaxEntries entries, or the string of
\* a registered value verbatim
EntryHeaders(k, max) ==
  UNION {{join(es) : es \in [1..n -> Entries(k)]} : n \in 1..max}

Headers(k, values) ==
  EntryHeaders(k, MaxEntries) \cup {values[i].str : i \in 1..Len(values)}

Negotiate ==
  /\ status = "built"
  /\ \E h \in Headers(kind, given) :
       /\ header' = h
       /\ sorted' = parse_sort_header(kind, h)
       /\ result' = negotiate(kind, supported, h)
  /\ status' = "answered"
  /\ UNCHANGED <<kind, given, supported, new_err, twin, calls, request, response>>

\* The caller is done with the borrowed result; the negotiator is shared and
\* can serve the next call.
Release ==
  /\ status = "answered"
  /\ status' = "built"
  /\ header' = <<>>
  /\ sorted' = NoCall
  /\ result' = NoCall
  /\ UNCHANGED <<kind, given, supported, new_err, twin, calls, request, response>>

Next == New \/ Negotiate \/ Release

Spec == Init /\ [][Next]_vars

(***************************************************************************)
(* parse_sort_header on its own: an associated function of the negotiation *)
(* type, callable without a negotiator, applied to longer headers.         *)
(***************************************************************************)
ParseSortHeader ==
  /\ status = "start"
  /\ \E h \in EntryHeaders(kind, MaxSortEntries) :
       /\ header' = h
       /\ sorted' = parse_sort_header(kind, h)
  /\ status' = "sorted"
  /\ UNCHANGED <<kind, given, supported, new_err, result, twin, calls, request, response>>

SortNext == ParseSortHeader

SortSpec == Init /\ [][SortNext]_vars

(***************************************************************************)
(* Negotiator::new on generated values.                                    *)
(***************************************************************************)
NewGenerated ==
  /\ status = "start"
  /\ \E strs \in GeneratedLists(kind) :
       NewWith(tagged(strs), new(kind, tagged(strs)))
  /\ UNCHANGED <<kind, header, sorted, result, twin, calls, request, response>>

BuildNext == NewGenerated

BuildSpec == Init /\ [][BuildNext]_vars

(***************************************************************************)
(* negotiate on generated headers, against a short list of values.         *)
(***************************************************************************)
Register ==
  /\ status = "start"
  /\ \E n \in 0..MaxRegistered : \E strs \in [1..n -> Values(kind)] :
       NewWith(tagged(strs), new(kind, tagged(strs)))
  /\ UNCHANGED <<kind, header, sorted, result, twin, calls, request, response>>

NegotiateGenerated ==
  /\ status = "built"
  /\ \E h \in GeneratedHeaders(kind) :
       /\ header' = h
       /\ sorted' = parse_sort_header(kind, h)
       /\ result' = negotiate(kind, supported, h)
  /\ status' = "answered"
  /\ UNCHANGED <<kind, given, supported, new_err, twin, calls, request, response>>

ParseNext == Register \/ NegotiateGenerated

ParseSpec == Init /\ [][ParseNext]_vars

(***************************************************************************)
(* Negotiators shared between callers.  Two negotiators are built from the *)
(* same values; every caller holds a shared reference to one of them and   *)
(* runs negotiate one comparison at a time, interleaved with the others.   *)
(* The sort of a call leaves any order that the contract of slice::sort_by *)
(* allows for the comparator of the kind.                                  *)
(***************************************************************************)
SharedLists(k) ==
  CASE k = "ct" -> {<<>>, <<<<"t", "/", "p">>>>, <<<<"t", "/", "p">>, <<"a", "/", "j">>>>, <<<<"a", "/", "j">>, <<"t", "/", "p">>>>}
    [] k = "enc" -> {<<>>, <<<<"g">>>>, <<<<"g">>, <<"c">>>>, <<<<"c">>, <<"g">>>>}
    [] k = "lang" -> {<<>>, <<<<"e", "-", "U">>>>, <<<<"e", "-", "U">>, <<"e", "-", "G">>>>, <<<<"e", "-", "G">>, <<"e", "-", "U">>>>}

\* a header whose second entry is the one that matches, a header of two
\* entries that compare Equal and match different values, and a malformed
\* header
SharedHeaders(k) ==
  CASE k = "ct" -> {<<"a", "/", "j", ";", "q", "=", "0", ".", "5", ",", "t", "/", "*">>, <<"a", "/", "j", ",", "t", "/", "p">>, <<"t", "/", "p", ",", "t">>}
    [] k = "enc" -> {<<"b", ",", "c">>, <<"c", ",", "g">>, <<"g", ",", "c", ";", "q">>}
    [] k = "lang" -> {<<"f", "-", "F", ",", "e">>, <<"e", "-", "G", ",", "e", "-", "U">>, <<"e", ",", "f", ";", "x", "=", "1">>}

Callers == 1..MaxCallers
Idle == [pc |-> "idle", neg |-> 0, header |-> <<>>, mimes |-> <<>>, i |-> 0, j |-> 0,
         result |-> NoCall]

\* mutant of supported_after: the pair that matched is taken out of the list
supported_after_take(list, j) ==
  SubSeq(list, 1, j - 1) \o SubSeq(list, j + 1, Len(list))

\* negotiate takes &self: the list a call leaves behind is the list it found
supported_after(list, j) == list

\* mutant of sort_by_outcomes: slice::sort_unstable_by, which may reorder
\* the entries that compare Equal
sort_unstable_by_outcomes(k, parsed) ==
  IF ~parsed.ok THEN {parsed}
  ELSE {Ok([i \in 1..Len(parsed.val) |-> parsed.val[p[i]]]) :
          p \in {p \in [1..Len(parsed.val) -> 1..Len(parsed.val)] :
                  \A i, j \in 1..Len(parsed.val) :
                    i < j => /\ p[i] # p[j]
                             /\ compare(k, parsed.val[p[i]], parsed.val[p[j]]) <= 0}}

\* what slice::sort_by may leave in the vector, by its contract: the
\* entries rearranged so that none stands before one it compares Greater
\* than, those that compare Equal in the order they had.  parsed: what the
\* collect before the sort returned; an error ends the call before the sort
sort_by_outcomes(k, parsed) ==
  IF ~parsed.ok THEN {parsed}
  ELSE {Ok([i \in 1..Len(parsed.val) |-> parsed.val[p[i]]]) :
          p \in {p \in [1..Len(parsed.val) -> 1..Len(parsed.val)] :
                  \A i, j \in 1..Len(parsed.val) :
                    i < j => /\ p[i] # p[j]
                             /\ \/ compare(k, parsed.val[p[i]], parsed.val[p[j]]) < 0
                                \/ /\ compare(k, parsed.val[p[i]], parsed.val[p[j]]) = 0
                                   /\ p[i] < p[j]}}

\* mimes: what parse_sort_header returned for the header
begin(n, h, mimes) ==
  IF ~mimes.ok
  THEN [pc |-> "done", neg |-> n, header |-> h, mimes |-> <<>>, i |-> 0, j |-> 0,
        result |-> mimes]
  ELSE [pc |-> "scan", neg |-> n, header |-> h, mimes |-> mimes.val, i |-> 1, j |-> 1,
        result |-> NoCall]

\* the comparison the call is about to make succeeds
at_match(r, list) ==
  /\ r.pc = "scan" /\ r.i <= Len(r.mimes) /\ r.j <= Len(list)
  /\ is_match(kind, list[r.j].key, r.mimes[r.i].key)

\* one turn of the loops of negotiate: the outer loop is over, the inner
\* loop is over, the pair matches, or the pair does not match
step(r, list) ==
  IF r.i > Len(r.mimes) THEN [r EXCEPT !.pc = "done", !.result = Ok(None)]
  ELSE IF r.j > Len(list) THEN [r EXCEPT !.i = r.i + 1, !.j = 1]
  ELSE IF at_match(r, list)
    THEN [r EXCEPT !.pc = "done", !.result = Ok(Some(list[r.j].value))]
  ELSE [r EXCEPT !.j = r.j + 1]

list_after(r, list) == IF at_match(r, list) THEN supported_after(list, r.j) ELSE list

negotiator_of(n) == IF n = 1 THEN supported ELSE twin

\* Negotiator::new twice on the same values
Share ==
  /\ status = "start"
  /\ \E strs \in SharedLists(kind) :
       /\ NewWith(tagged(strs), new(kind, tagged(strs)))
       /\ twin' = new(kind, tagged(strs)).val
  /\ calls' = [c \in Callers |-> Idle]
  /\ UNCHANGED <<kind, header, sorted, result, request, response>>

Begin(c) ==
  /\ status = "built" /\ calls[c].pc = "idle"
  /\ \E h \in SharedHeaders(kind) :
       \E mimes \in sort_by_outcomes(kind, parse_header(kind, h)) :
         \E n \in {1, 2} : calls' = [calls EXCEPT ![c] = begin(n, h, mimes)]
  /\ UNCHANGED <<kind, status, given, supported, new_err, header, sorted, result, twin,
                 request, response>>

Step(c) ==
  /\ status = "built" /\ calls[c].pc = "scan"
  /\ calls' = [calls EXCEPT ![c] = step(calls[c], negotiator_of(calls[c].neg))]
  /\ supported' = IF calls[c].neg = 1 THEN list_after(calls[c], supported) ELSE supported
  /\ twin' = IF calls[c].neg = 2 THEN list_after(calls[c], twin) ELSE twin
  /\ UNCHANGED <<kind, status, given, new_err, header, sorted, result, request, response>>

SharedNext == Share \/ (\E c \in Callers : Begin(c)) \/ (\E c \in Callers : Step(c))

SharedSpec == Init /\ [][SharedNext]_vars

(***************************************************************************)
(* negotiate on headers whose entries differ in their q: zero, negative,   *)
(* above 1, infinite and NaN qualities.                                    *)
(***************************************************************************)
QTexts ==
  { <<"0">>,
    <<"0", ".", "5">>,
    <<"0", ".", "5", "0", "0", "0", "0", "0", "0", "0", "1">>,
    <<"0", ".", "5", "0", "0", "1">>,
    <<"2">>,
    <<"-", "1">>,
    <<"i", "n", "f">>,
    <<"-", "i", "n", "f">>,
    <<"N", "a", "N">> }

\* a second well-formed value of the kind
Other(k) ==
  CASE k = "ct" -> <<"a", "/", "j">> [] k = "enc" -> <<"c">> [] k = "lang" -> <<"f", "-", "F">>

\* headers of up to MaxQEntries entries, each with or without a quality
QHeaders(k) ==
  UNION {{join(es) : es \in [1..n ->
            {Good(k), Other(k)}
              \cup {with_params(v, <<<<"q", "=">> \o t>>) :
                      v \in {Good(k), Other(k)}, t \in QTexts}]}
         : n \in 1..MaxQEntries}

NewShort ==
  /\ status = "start"
  /\ \E strs \in SharedLists(kind) :
       NewWith(tagged(strs), new(kind, tagged(strs)))
  /\ UNCHANGED <<kind, header, sorted, result, twin, calls, request, response>>

NegotiateQualities ==
  /\ status = "built"
  /\ \E h \in QHeaders(kind) :
       /\ header' = h
       /\ sorted' = parse_sort_header(kind, h)
       /\ result' = negotiate(kind, supported, h)
  /\ status' = "answered"
  /\ UNCHANGED <<kind, given, supported, new_err, twin, calls, request, response>>

QualityNext == NewShort \/ NegotiateQualities

QualitySpec == Init /\ [][QualityNext]_vars

(***************************************************************************)
(* The axum extractor.  The negotiator comes from the application state,   *)
(* the header from the request; the outcome is the negotiated value, a     *)
(* rejection answered with a status code, or a panic.                      *)
(***************************************************************************)
Value(v) == [kind |-> "value", value |-> v, status |-> 0, why |-> "none"]
Rejection(why) == [kind |-> "rejection", value |-> <<>>, status |-> 400, why |-> why]
Panic == [kind |-> "panic", value |-> <<>>, status |-> 0, why |-> "index out of bounds"]

\* the bytes HeaderValue::to_str takes for text: visible ASCII, the space
\* and the tab (the grave accent is no character a string of a module can
\* hold)
VisibleAscii ==
  {"\t",
   " ", "!", "\"", "#", "$", "%", "&", "'", "(", ")", "*", "+", ",", "-", ".", "/",
   "0", "1", "2", "3", "4", "5", "6", "7", "8", "9", ":", ";", "<", "=", ">", "?",
   "@", "A", "B", "C", "D", "E", "F", "G", "H", "I", "J", "K", "L", "M", "N", "O",
   "P", "Q", "R", "S", "T", "U", "V", "W", "X", "Y", "Z", "[", "\\", "]", "^", "_",
   "a", "b", "c", "d", "e", "f", "g", "h", "i", "j", "k", "l", "m", "n", "o",
   "p", "q", "r", "s", "t", "u", "v", "w", "x", "y", "z", "{", "|", "}", "~"}
\* HeaderValue::to_str: the bytes as text when all are visible ASCII
to_str(bytes) ==
  IF \A i \in 1..Len(bytes) : bytes[i] \in VisibleAscii THEN Ok(bytes) ELSE Err("ToStrError")

\* mutant of unwrap_first: the value registered last
unwrap_first_last(list) == IF list = <<>> THEN Panic ELSE Value(list[Len(list)].value)

\* &self.supported[0].1: indexing an empty Vec panics
unwrap_first(list) == IF list = <<>> THEN Panic ELSE Value(list[1].value)

\* res: what negotiate returned
respond(list, res) ==
  IF ~res.ok THEN Rejection("NegotiationFailure")
  ELSE IF res.val.some THEN Value(res.val.val)
  ELSE unwrap_first(list)

from_request_parts(k, list, req) ==
  IF ~req.present THEN unwrap_first(list)
  ELSE IF ~to_str(req.bytes).ok THEN Rejection("InvalidAcceptHeader")
  ELSE respond(list, negotiate(k, list, to_str(req.bytes).val))

\* the requests a client may send: without the header, with a header of up
\* to MaxEntries entries, with bytes that are no text
Requests(k, values) ==
  {NoHeader}
    \cup {HeaderBytes(h) : h \in Headers(k, values)}
    \cup {HeaderBytes(Good(k) \o <<"é">>)}

Extract ==
  /\ status = "built"
  /\ \E req \in Requests(kind, given) :
       /\ request' = req
       /\ header' = req.bytes
       /\ result' = IF req.present /\ to_str(req.bytes).ok
                    THEN negotiate(kind, supported, to_str(req.bytes).val)
                    ELSE NoCall
       /\ response' = from_request_parts(kind, supported, req)
  /\ status' = "extracted"
  /\ UNCHANGED <<kind, given, supported, new_err, sorted, twin, calls>>

AxumNext == NewShort \/ Extract

AxumSpec == Init /\ [][AxumNext]_vars

(***************************************************************************)
(* The single-pass media-type negotiators that came before the sorted one. *)
(* The header entries are walked in written order and the selection so far *)
(* is kept with its quality; the two versions differ in the comparison     *)
(* that lets an entry be skipped.                                          *)
(***************************************************************************)
MaxLegacyEntries == 3

\* comparisons of f32 values as the operators <= and < make them: false
\* whenever an operand is NaN, and -0.0 equal to 0.0
f32_value(q) == IF q.neg THEN 0 - q.mag ELSE q.mag
f32_le(a, b) == a.mag # NaNMag /\ b.mag # NaNMag /\ f32_value(a) <= f32_value(b)
f32_lt(a, b) == a.mag # NaNMag /\ b.mag # NaNMag /\ f32_value(a) < f32_value(b)

\* matches(specific, maybe_wildcard) on strings
matches_str(specific, maybe_wildcard) ==
  specific = maybe_wildcard \/ maybe_wildcard = <<"*">>

\* quality(entry): the first q parameter of one header entry, 1.0 without
\* one
quality(entry) ==
  IF SelectSeq(map_trim(split(entry, ";")),
               LAMBDA seg : Len(seg) >= 2 /\ SubSeq(seg, 1, 2) = <<"q", "=">>) = <<>>
  THEN Ok(One)
  ELSE parse_f32(Tail(Tail(Head(
         SelectSeq(map_trim(split(entry, ";")),
                   LAMBDA seg : Len(seg) >= 2 /\ SubSeq(seg, 1, 2) = <<"q", "=">>)))))

\* the part before the first ';', split at the first '/'
parse_mime_with_params(entry) ==
  IF ~contains(split(entry, ";")[1], "/") THEN Err("MissingSeparator")
  ELSE IF split_once(split(entry, ";")[1], "/").val[1] = <<"*">>
          /\ split_once(split(entry, ";")[1], "/").val[2] # <<"*">>
    THEN Err("InvalidWildcard")
  ELSE Ok([main |-> split_once(split(entry, ";")[1], "/").val[1],
           sub |-> split_once(split(entry, ";")[1], "/").val[2]])

\* AcceptNegotiationRef::parse_supported: (mime, main, sub).  The
\* parse_mime of one argument that it calls is not among the sources; the
\* parse of a supported value in accept/negotiator_ref.rs stands for it:
\* the value split at the first '/', no second '/', and a wildcard main
\* type only with a wildcard subtype
parse_supported(value) ==
  IF ~contains(value.str, "/") THEN Err("MissingSeparator")
  ELSE IF contains(split_once(value.str, "/").val[2], "/") THEN Err("TooManyPart")
  ELSE IF split_once(value.str, "/").val[1] = <<"*">>
          /\ split_once(value.str, "/").val[2] # <<"*">>
    THEN Err("InvalidWildcard")
  ELSE Ok([key |-> [main |-> split_once(value.str, "/").val[1],
                    sub |-> split_once(value.str, "/").val[2]],
           value |-> value])
\* v2 Negotiator::new: every value parsed in input order, the first error
\* wins
legacy_new(values) ==
  pairs_of(values, [i \in 1..Len(values) |->
    IF parse_supported(values[i]).ok
    THEN Ok(parse_supported(values[i]).val.key) ELSE parse_supported(values[i])])

\* the inner loop over the supported values: the first one the entry
\* matches becomes the selection, none leaves the selection as it was
RECURSIVE select_first(_, _, _, _)
select_first(selected, list, req, q) ==
  IF list = <<>> THEN selected
  ELSE IF matches_str(list[1].key.main, req.main) /\ matches_str(list[1].key.sub, req.sub)
    THEN Some([value |-> list[1].value, q |-> q])
  ELSE select_first(selected, Tail(list), req, q)

\* v2: an entry is skipped when quality <= prev_quality; the older
\* Negotiator trait (strict = FALSE) skips it when quality < prev_quality
select(strict, selected, list, req, q) ==
  IF /\ selected.some
     /\ IF strict THEN f32_le(q, selected.val.q) ELSE f32_lt(q, selected.val.q)
  THEN selected
  ELSE select_first(selected, list, req, q)

\* the loop over the entries of the header: an entry that does not parse
\* ends it with the error
RECURSIVE walk(_, _, _, _)
walk(strict, selected, list, entries) ==
  IF entries = <<>> THEN Ok(IF selected.some THEN Some(selected.val.value) ELSE None)
  ELSE IF ~parse_mime_with_params(Head(entries)).ok THEN parse_mime_with_params(Head(entries))
  ELSE IF ~quality(Head(entries)).ok THEN quality(Head(entries))
  ELSE walk(strict,
            select(strict, selected, list,
                   parse_mime_with_params(Head(entries)).val, quality(Head(entries)).val),
            list, Tail(entries))

v2_negotiate(list, h) == walk(TRUE, None, list, map_trim(split(h, ",")))
accept_negotiate(list, h) == walk(FALSE, None, list, map_trim(split(h, ",")))

\* headers of up to MaxLegacyEntries entries, with and without a quality,
\* some of them malformed
LegacyHeaders ==
  UNION {{join(es) : es \in [1..n ->
            {hd \o q : hd \in {<<"t", "/", "p">>, <<"a", "/", "j">>, <<"*", "/", "*">>},
                       q \in {<<>>, <<";", "q", "=", "0", ".", "5">>,
                              <<";", "q", "=", "N", "a", "N">>}}
              \cup {<<"t">>, <<"*", "/", "p">>, <<"t", "/", "p", ";", "q", "=", "x">>}]}
         : n \in 1..MaxLegacyEntries}

LegacyNew ==
  /\ status = "start"
  /\ kind = "ct"
  /\ \E strs \in SharedLists("ct")
                   \cup {<<<<"t">>>>, <<<<"t", "/", "*">>>>, <<<<"t", "/", "p", "/", "x">>>>,
                         <<<<"*", "/", "p">>>>} :
       NewWith(tagged(strs), legacy_new(tagged(strs)))
  /\ UNCHANGED <<kind, header, sorted, result, twin, calls, request, response>>

V2Negotiate ==
  /\ status = "built"
  /\ \E h \in LegacyHeaders :
       /\ header' = h
       /\ result' = v2_negotiate(supported, h)
  /\ status' = "v2"
  /\ UNCHANGED <<kind, given, supported, new_err, sorted, twin, calls, request, response>>

AcceptNegotiate ==
  /\ status = "built"
  /\ \E h \in LegacyHeaders :
       /\ header' = h
       /\ result' = accept_negotiate(supported, h)
  /\ status' = "accept"
  /\ UNCHANGED <<kind, given, supported, new_err, sorted, twin, calls, request, response>>

LegacyNext == LegacyNew \/ V2Negotiate \/ AcceptNegotiate

LegacySpec == Init /\ [][LegacyNext]_vars

(***************************************************************************)
(* Properties.                                                             *)
(***************************************************************************)
Answered == status = "answered"
Returned == Answered /\ result.ok
Hit == Returned /\ result.val.some
Idx(s) == 1..Len(s)
\* the comma-separated entries of the last header, as written
Written == split(header, ",")
EntryOk(e) == parse_header_entry(kind, e).ok
KeyMatch(j, h) == is_match(kind, supported[j].key, h)

\* C1: negotiate returns the earliest-registered supported value matching the
\* first entry, in sorted priority order, that matches any supported key; the
\* returned value is one of the values the negotiator was built from.
C1_FirstEntryFirstRegistered ==
  Hit =>
    /\ \E j \in Idx(given) : result.val.val = given[j]
    /\ \E i \in Idx(sorted.val) : \E j \in Idx(supported) :
         /\ result.val.val = supported[j].value
         /\ KeyMatch(j, sorted.val[i].key)
         /\ \A j2 \in 1..(j - 1) : ~KeyMatch(j2, sorted.val[i].key)
         /\ \A i2 \in 1..(i - 1) : \A j2 \in Idx(supported) :
              ~KeyMatch(j2, sorted.val[i2].key)

\* C1 witness: the best entry matches nothing, the next one matches two
\* registered values, and the earlier of the two is returned.
C1_Witness ==
  /\ Hit
  /\ Len(sorted.val) >= 2
  /\ \A j \in Idx(supported) : ~KeyMatch(j, sorted.val[1].key)
  /\ Len(supported) >= 2
  /\ KeyMatch(1, sorted.val[2].key) /\ KeyMatch(2, sorted.val[2].key)
  /\ result.val.val = supported[1].value

\* C2: on a well-formed header negotiate returns Ok(None) exactly when no
\* (header entry, supported key) pair matches, and Ok(Some) otherwise.
C2_NoneIffNoPair ==
  Returned =>
    (result.val.some <=>
       \E i \in Idx(Written) : \E j \in Idx(supported) :
         KeyMatch(j, parse_header_entry(kind, Written[i]).val.key))

\* C2 witness: a two-entry header against a non-empty list gives Ok(None).
C2_Witness ==
  /\ Returned /\ ~result.val.some
  /\ Len(Written) >= 2 /\ Len(supported) >= 1

\* the media-type sort keys of a parsed entry
Quality(e) == IF e.q.neg THEN 0 - e.q.mag - 1 ELSE e.q.mag
Score(e) == IF e.key.main.wild /\ e.key.sub.wild THEN 0 ELSE IF e.key.sub.wild THEN 1 ELSE 2
NParams(e) == Cardinality(DOMAIN e.key.params)
Before(a, b) ==
  \/ Quality(a) > Quality(b)
  \/ Quality(a) = Quality(b) /\ Score(a) > Score(b)
  \/ Quality(a) = Quality(b) /\ Score(a) = Score(b) /\ NParams(a) > NParams(b)
Tied(a, b) == ~Before(a, b) /\ ~Before(b, a)
Perms(n) == {p \in [1..n -> 1..n] : \A a, b \in 1..n : a # b => p[a] # p[b]}
\* the entries of the last header parsed one by one, in written order
InOrder == [i \in Idx(Written) |-> parse_header_entry(kind, Written[i]).val]

\* C3: for media types the sorted entries are the header's entries in
\* descending (quality, specificity, parameter count) order, entries tied on
\* all three keeping their written order.
C3_SortedStable ==
  (kind = "ct" /\ sorted.ok) =>
    \E p \in Perms(Len(Written)) :
      /\ Len(sorted.val) = Len(Written)
      /\ \A i \in Idx(Written) : sorted.val[i] = InOrder[p[i]]
      /\ \A a, b \in Idx(Written) :
           a < b => \/ Before(InOrder[p[a]], InOrder[p[b]])
                    \/ Tied(InOrder[p[a]], InOrder[p[b]]) /\ p[a] < p[b]

\* C3 witness: two different entries tied on all three keys stay in written
\* order while a later, better entry is moved in front of them.
C3_Witness ==
  /\ status = "sorted" /\ kind = "ct" /\ sorted.ok
  /\ Len(Written) = 3
  /\ Tied(InOrder[1], InOrder[2]) /\ InOrder[1] # InOrder[2]
  /\ Before(InOrder[3], InOrder[1])
  /\ sorted.val = <<InOrder[3], InOrder[1], InOrder[2]>>

\* C4: a header with an entry that fails to parse makes negotiate return an
\* error, never a value, whatever the other entries match.
C4_MalformedAborts ==
  (Answered /\ \E i \in Idx(Written) : ~EntryOk(Written[i])) => ~result.ok

\* C4 witness: the first entry matches a registered value, a later entry is
\* malformed, and the call returned that entry's error.
C4_Witness ==
  /\ Answered /\ ~result.ok
  /\ Len(Written) >= 2
  /\ EntryOk(Written[1])
  /\ \E j \in Idx(supported) : KeyMatch(j, parse_header_entry(kind, Written[1]).val.key)
  /\ ~EntryOk(Written[2])
  /\ result.err = parse_header_entry(kind, Written[2]).err

ElemOk(i) == parse_elem(kind, given[i].str).ok

\* C5: Negotiator::new is all-or-nothing: it stores one (key, value) pair per
\* input in input order when every value parses, and otherwise returns the
\* error of the first invalid value and no negotiator.
C5_NewAllOrNothing ==
  /\ status \in {"built", "answered"} =>
       /\ \A i \in Idx(given) : ElemOk(i)
       /\ Len(supported) = Len(given)
       /\ \A i \in Idx(given) :
            /\ supported[i].value = given[i]
            /\ supported[i].key = parse_elem(kind, given[i].str).val
  /\ status = "failed" =>
       /\ supported = <<>>
       /\ \E i \in Idx(given) :
            /\ ~ElemOk(i)
            /\ \A j \in 1..(i - 1) : ElemOk(j)
            /\ new_err = parse_elem(kind, given[i].str).err

\* C5 witness: two invalid values with different errors; the error of the
\* first one is returned.
C5_Witness ==
  /\ status = "failed"
  /\ Len(given) = 2
  /\ ~ElemOk(1) /\ ~ElemOk(2)
  /\ parse_elem(kind, given[1].str).err # parse_elem(kind, given[2].str).err
  /\ new_err = parse_elem(kind, given[1].str).err

\* a media-type entry as parse_mime reads it: main and sub as written, the
\* parameter map still holding q
RawMime(e) == parse_mime(trim(e), TRUE).val
QKey == <<"q">>
\* the matching rule for media types, on the written entry
MimeAccepts(e, s) ==
  /\ RawMime(e).main = <<"*">> \/ RawMime(e).main = s.main
  /\ RawMime(e).sub = <<"*">> \/ RawMime(e).sub = s.sub
  /\ DOMAIN s.params = (DOMAIN RawMime(e).params) \ {QKey}
  /\ \A k \in DOMAIN s.params : s.params[k] = RawMime(e).params[k]

\* C6: a supported media type matches a header entry iff main and sub agree or
\* are wildcards on the header side and the supported parameter map equals the
\* entry's parameter map without q; negotiate finds a value exactly when some
\* entry and some supported value are related this way.
C6_MimeMatchExact ==
  (Returned /\ kind = "ct") =>
    /\ \A i \in Idx(Written) : \A j \in Idx(supported) :
         KeyMatch(j, InOrder[i].key) <=> MimeAccepts(Written[i], supported[j].key)
    /\ result.val.some <=>
         \E i \in Idx(Written) : \E j \in Idx(supported) :
           MimeAccepts(Written[i], supported[j].key)

\* C6 witness: the only supported type has no parameters; an entry of the same
\* type with an extra parameter does not match it, an entry carrying only q
\* does, and the value is returned.
C6_Witness ==
  /\ Hit /\ kind = "ct"
  /\ Len(supported) = 1 /\ DOMAIN supported[1].key.params = {}
  /\ \E i \in Idx(Written) :
       /\ RawMime(Written[i]).main = supported[1].key.main
       /\ RawMime(Written[i]).sub = supported[1].key.sub
       /\ (DOMAIN RawMime(Written[i]).params) \ {QKey} # {}
       /\ ~KeyMatch(1, InOrder[i].key)
  /\ \E i \in Idx(Written) :
       /\ DOMAIN RawMime(Written[i]).params = {QKey}
       /\ KeyMatch(1, InOrder[i].key)

\* C7: a header that is only "*/*" (media type) or "*" (encoding) makes
\* negotiate return the first registered value of any non-empty negotiator,
\* supported media types with parameters included.
C7_WildcardAloneMatchesAll ==
  (Returned /\ supported # <<>>
     /\ \/ kind = "ct" /\ header = <<"*", "/", "*">>
        \/ kind = "enc" /\ header = <<"*">>)
    => (result.val.some /\ result.val.val = supported[1].value)

\* the first registered value whose key equals the key of value i
EarliestSameKey(i) ==
  CHOOSE j \in Idx(supported) :
    /\ supported[j].key = supported[i].key
    /\ \A j2 \in 1..(j - 1) : supported[j2].key # supported[i].key

\* C8 as stated: negotiate called with the string of a supported value s
\* returns Some(s).
C8_VerbatimReturnsItself ==
  Answered =>
    \A i \in Idx(given) :
      header = given[i].str =>
        (result.ok /\ result.val.some /\ result.val.val.str = given[i].str)

\* C8 amended: when the string of a supported value s has no comma and, for
\* encodings and languages, no surrounding whitespace, negotiate called with
\* it returns the earliest-registered value whose key equals the key of s.
C8_VerbatimReturnsEarliestSameKey ==
  Answered =>
    \A i \in Idx(given) :
      (/\ header = given[i].str
       /\ ~contains(header, ",")
       /\ kind \in {"enc", "lang"} => trim(header) = header)
        => (result.ok /\ result.val.some
              /\ result.val.val = given[EarliestSameKey(i)])

\* C8 witness: two registered media types spelled differently have the same
\* key; the header is the second one's string and the first one is returned.
C8_Witness ==
  /\ Hit
  /\ Len(given) = 2
  /\ header = given[2].str
  /\ given[1].str # given[2].str
  /\ supported[1].key = supported[2].key
  /\ result.val.val = given[1]

\* the token of an encoding or language entry: what precedes the first ';'
Token(e) == trim(split(e, ";")[1])
EncAccepts(e, s) == Token(e) = s \/ Token(e) = <<"*">>

\* C9: a supported encoding matches a header entry iff the entry's token
\* equals it or is "*".
C9_EncodingMatch ==
  (Returned /\ kind = "enc") =>
    /\ \A i \in Idx(Written) : \A j \in Idx(supported) :
         KeyMatch(j, InOrder[i].key) <=> EncAccepts(Written[i], supported[j].key)
    /\ result.val.some <=>
         \E i \in Idx(Written) : \E j \in Idx(supported) :
           EncAccepts(Written[i], supported[j].key)

\* C9 witness: no entry names a registered encoding, one entry is "*", and a
\* value is returned.
C9_Witness ==
  /\ Hit /\ kind = "enc"
  /\ Len(Written) >= 2
  /\ \A i \in Idx(Written) : \A j \in Idx(supported) : Token(Written[i]) # supported[j].key
  /\ \E i \in Idx(Written) : Token(Written[i]) = <<"*">>

LangAccepts(e, s) ==
  IF contains(Token(e), "-")
  THEN s.main = split_once(Token(e), "-").val[1] /\ s.sub = split_once(Token(e), "-").val[2]
  ELSE s.main = Token(e)

\* C10: a supported language matches a header entry iff the primaries are
\* equal and the entry's region equals the supported region or is the
\* wildcard; a tag without '-' is read as (primary, Wildcard) and matches
\* every supported language of that primary.
C10_LanguageMatch ==
  (Returned /\ kind = "lang") =>
    /\ \A i \in Idx(Written) : \A j \in Idx(supported) :
         KeyMatch(j, InOrder[i].key) <=> LangAccepts(Written[i], supported[j].key)
    /\ \A i \in Idx(Written) :
         ~contains(Token(Written[i]), "-") =>
           InOrder[i].key = [main |-> Token(Written[i]), sub |-> Wildcard]
    /\ result.val.some <=>
         \E i \in Idx(Written) : \E j \in Idx(supported) :
           LangAccepts(Written[i], supported[j].key)

\* C10 witness: every entry is a bare primary, two registered languages with
\* different regions share it, and the first registered one is returned.
C10_Witness ==
  /\ Hit /\ kind = "lang"
  /\ \A i \in Idx(Written) : ~contains(Token(Written[i]), "-")
  /\ Len(supported) = 2
  /\ supported[1].key.sub # supported[2].key.sub
  /\ KeyMatch(1, sorted.val[1].key) /\ KeyMatch(2, sorted.val[1].key)
  /\ result.val.val = supported[1].value

(***************************************************************************)
(* Properties of header entries, read off the text of the header.          *)
(***************************************************************************)
\* the text of one ';'-separated segment is a q parameter; its value
IsQ(p) == Len(trim(p)) >= 2 /\ SubSeq(trim(p), 1, 2) = <<"q", "=">>
QText(p) == SubSeq(trim(p), 3, Len(trim(p)))
\* the segments after the value; those that are q parameters; the entry
\* without them
Segments(e) == Tail(split(e, ";"))
QParts(e) == SelectSeq(Segments(e), IsQ)
Stripped(e) == with_params(Head(split(e, ";")), SelectSeq(Segments(e), LAMBDA p : ~IsQ(p)))
\* an entry that is well formed once its q parameter, if any, is taken away
PlainOk(e) == Len(QParts(e)) <= 1 /\ EntryOk(Stripped(e))
BadQ(e) == QParts(e) # <<>> /\ ~parse_f32(QText(QParts(e)[1])).ok
\* the quality the entry asks for
AskedQ(e) == IF QParts(e) = <<>> THEN One ELSE parse_f32(QText(QParts(e)[1])).val
PlainKey(e) == parse_header_entry(kind, Stripped(e)).val.key

\* C11: in a header of entries that are well formed apart from their q, every
\* entry gets quality 1.0 without a q parameter and the parsed value of q
\* with one, and the call fails with InvalidQuality when some q is no number.
C11_QualityOfEntry ==
  (Answered /\ \A i \in Idx(Written) : PlainOk(Written[i])) =>
    IF \E i \in Idx(Written) : BadQ(Written[i])
    THEN ~result.ok /\ result.err = "InvalidQuality" /\ sorted = result
    ELSE /\ sorted.ok /\ result.ok
         /\ Len(sorted.val) = Len(Written)
         /\ \A i \in Idx(Written) : \E j \in Idx(sorted.val) :
              /\ sorted.val[j].key = PlainKey(Written[i])
              /\ sorted.val[j].q = AskedQ(Written[i])

\* C11 witness: an entry without q, then one whose q is no number.
C11_Witness ==
  /\ Answered /\ Len(Written) = 2
  /\ PlainOk(Written[1]) /\ QParts(Written[1]) = <<>>
  /\ PlainOk(Written[2]) /\ BadQ(Written[2])
  /\ result.err = "InvalidQuality"

(***************************************************************************)
(* Properties of Negotiator::new, read off the text of the values.         *)
(***************************************************************************)
Built == status = "built"
Failed == status = "failed"
\* the part of a value before its first ';', trimmed, split at every '/'
ValuePart(v) == trim(Head(split(v, ";")))
MimeParts(v) == split(ValuePart(v), "/")
\* a media type whose main or sub part is "*"; the encoding "*"
WildMime(v) == Len(MimeParts(v)) = 2 /\ (MimeParts(v)[1] = <<"*">> \/ MimeParts(v)[2] = <<"*">>)
WildValue(v) == IF kind = "ct" THEN WildMime(v) ELSE v = <<"*">>
\* the value new looks at last: the first that fails, if one does
FirstBad(i) ==
  /\ i \in Idx(given) /\ ~ElemOk(i)
  /\ \A j \in 1..(i - 1) : ElemOk(j)

\* C12: for media types and encodings, new fails with InvalidWildcard on a
\* wildcard value, and no stored key has a wildcard part.
C12_NoSupportedWildcard ==
  kind \in {"ct", "enc"} =>
    /\ \A i \in Idx(given) :
         (WildValue(given[i].str) /\ \A j \in 1..(i - 1) : ElemOk(j))
           => Failed /\ new_err = "InvalidWildcard"
    /\ \A j \in Idx(supported) :
         IF kind = "ct"
         THEN supported[j].key.main # <<"*">> /\ supported[j].key.sub # <<"*">>
         ELSE supported[j].key # <<"*">>

\* C12 witness: a well-formed media type, then one with a wildcard sub part
\* and a parameter.
C12_Witness ==
  /\ Failed /\ kind = "ct" /\ Len(given) = 2
  /\ ElemOk(1)
  /\ MimeParts(given[2].str) = <<<<"t">>, <<"*">>>>
  /\ Len(split(given[2].str, ";")) = 2
  /\ new_err = "InvalidWildcard"

\* a value that carries a q parameter and is well formed without it, at a
\* place where new gets to look at it
CarriesQ(i) ==
  /\ QParts(given[i].str) # <<>>
  /\ parse_elem(kind, Stripped(given[i].str)).ok
  /\ \A j \in 1..(i - 1) : ElemOk(j)

\* C13 as claimed: for every kind, new fails with QualityNotAllowed on a value
\* that carries a q parameter.
C13_QualityNotAllowedAnyKind ==
  \A i \in Idx(given) : CarriesQ(i) => Failed /\ new_err = "QualityNotAllowed"

\* C13 amended: new fails on a value that carries a q parameter, with
\* QualityNotAllowed for media types and with ParamsNotAllowed for encodings
\* and languages.
C13_QualityRejectedPerKind ==
  \A i \in Idx(given) : CarriesQ(i) =>
    /\ Failed
    /\ new_err = IF kind = "ct" THEN "QualityNotAllowed" ELSE "ParamsNotAllowed"

\* C13 witness: a well-formed media type, then one with a q parameter.
C13_Witness ==
  /\ Failed /\ kind = "ct" /\ Len(given) = 2
  /\ CarriesQ(2)
  /\ new_err = "QualityNotAllowed"

\* C16: for encodings and languages, new fails with ParamsNotAllowed on a
\* value that contains ';', whatever comes before or after the ';'.
C16_SemicolonRejected ==
  kind \in {"enc", "lang"} =>
    \A i \in Idx(given) :
      (contains(given[i].str, ";") /\ \A j \in 1..(i - 1) : ElemOk(j))
        => Failed /\ new_err = "ParamsNotAllowed"

\* C16 witness: a well-formed language, then a tag without region followed
\* by a q and another parameter.
C16_Witness ==
  /\ Failed /\ kind = "lang" /\ Len(given) = 2
  /\ ElemOk(1)
  /\ ~contains(ValuePart(given[2].str), "-")
  /\ Len(QParts(given[2].str)) = 1 /\ Len(Segments(given[2].str)) = 2
  /\ new_err = "ParamsNotAllowed"

\* C17: for languages, new fails with MissingSeparator on a value without
\* '-' (and without ';'), and no stored key has "*" as primary or region.
C17_LanguageKeysSpecific ==
  kind = "lang" =>
    /\ \A i \in Idx(given) :
         (/\ ~contains(given[i].str, "-") /\ ~contains(given[i].str, ";")
          /\ \A j \in 1..(i - 1) : ElemOk(j))
           => Failed /\ new_err = "MissingSeparator"
    /\ \A j \in Idx(supported) :
         supported[j].key.main # <<"*">> /\ supported[j].key.sub # <<"*">>

(***************************************************************************)
(* Properties of negotiate on malformed headers.                           *)
(***************************************************************************)
\* the entry negotiate's error comes from: every entry before it parses
Leading(i) == i \in Idx(Written) /\ \A j \in 1..(i - 1) : EntryOk(Written[j])
ValueErrors == {"MissingSeparator", "TooManyParts", "InvalidWildcard"}
\* main "*" with a sub part that is not "*"
WildMainOnly(v) == Len(MimeParts(v)) = 2 /\ MimeParts(v)[1] = <<"*">> /\ MimeParts(v)[2] # <<"*">>
ValueFine(v) == Len(MimeParts(v)) = 2 /\ ~WildMainOnly(v)

\* C14: for media types, whatever the supported list, an entry without '/'
\* fails with MissingSeparator, one with more than one '/' with TooManyParts,
\* one with main "*" and another sub with InvalidWildcard; a header whose
\* values all have one '/' and no lone main "*", "t/*" and "*/*" included,
\* fails with none of the three, and is accepted when it has no parameters.
C14_HeaderValueValidation ==
  (Answered /\ kind = "ct") =>
    /\ \A i \in Idx(Written) : Leading(i) =>
         /\ Len(MimeParts(Written[i])) = 1 => result.err = "MissingSeparator"
         /\ Len(MimeParts(Written[i])) > 2 => result.err = "TooManyParts"
         /\ WildMainOnly(Written[i]) => result.err = "InvalidWildcard"
    /\ (\A i \in Idx(Written) : ValueFine(Written[i])) =>
         /\ result.err \notin ValueErrors
         /\ (\A i \in Idx(Written) : Segments(Written[i]) = <<>>) => result.ok

\* C14 witness: against a list holding text/plain, the entry text/plain and
\* then an entry with main "*", sub "p" and a parameter.
C14_Witness ==
  /\ Answered /\ kind = "ct" /\ Len(supported) = 1 /\ Len(Written) = 2
  /\ EntryOk(Written[1]) /\ KeyMatch(1, parse_header_entry(kind, Written[1]).val.key)
  /\ WildMainOnly(Written[2]) /\ Segments(Written[2]) # <<>>
  /\ result.err = "InvalidWildcard"

\* a segment of the form key=value whose key is not q; a q that is a number
OtherParam(p) == contains(p, "=") /\ ~IsQ(p)
GoodQ(p) == IsQ(p) /\ parse_f32(QText(p)).ok
\* the value part of the entry on its own is a well-formed entry
HeadOk(e) == EntryOk(Head(split(e, ";")))
\* an entry with a well-formed value part whose segments are numeric q's and
\* other key=value parameters, at least one of the latter
CarriesOther(e) ==
  /\ HeadOk(e)
  /\ \A k \in Idx(Segments(e)) : GoodQ(Segments(e)[k]) \/ OtherParam(Segments(e)[k])
  /\ \E k \in Idx(Segments(e)) : OtherParam(Segments(e)[k])

\* C15: for encodings and languages, an entry that carries a parameter other
\* than q, first or later, makes negotiate fail with ParamsNotAllowed.
C15_OnlyQPermitted ==
  (Answered /\ kind \in {"enc", "lang"}) =>
    \A i \in Idx(Written) :
      (Leading(i) /\ CarriesOther(Written[i])) => result.err = "ParamsNotAllowed"

\* C18: an empty entry makes negotiate fail with InvalidHeader, for every
\* kind, and so does an entry whose first parameter lacks '='.
C18_EmptyEntryInvalidHeader ==
  Answered =>
    \A i \in Idx(Written) : Leading(i) =>
      /\ trim(Written[i]) = <<>> => result.err = "InvalidHeader"
      /\ (/\ HeadOk(Written[i]) /\ Segments(Written[i]) # <<>>
          /\ ~contains(Segments(Written[i])[1], "="))
           => result.err = "InvalidHeader"

(***************************************************************************)
(* Properties of shared negotiators.                                       *)
(***************************************************************************)
Done(c) == c \in DOMAIN calls /\ calls[c].pc = "done"
Found(c) == Done(c) /\ calls[c].result.ok /\ calls[c].result.val.some
\* what Negotiator::new made of the values
Constructed == new(kind, given).val

\* with, and each finished call has the result negotiate gives for its
\* header on that list when run alone.
C20_ListUntouchedByCalls ==
  (status = "built" /\ calls # <<>>) =>
    /\ supported = Constructed /\ twin = Constructed
    /\ \A c \in DOMAIN calls :
         Done(c) => calls[c].result = negotiate(kind, Constructed, calls[c].header)

\* C20 witness: on one negotiator, a call has found a value while another
\* call is in the middle of its scan and a third has failed on its header.
C20_Witness ==
  \E c, d, e \in DOMAIN calls :
    /\ calls[c].neg = 1 /\ calls[d].neg = 1 /\ calls[e].neg = 1
    /\ Found(c)
    /\ calls[d].pc = "scan" /\ calls[d].i = 2
    /\ Done(e) /\ ~calls[e].result.ok

(***************************************************************************)
(* Properties of the order in which entries are tried.                     *)
(***************************************************************************)
\* sorted is the written entries rearranged by p
Rearranged(p) ==
  /\ Len(sorted.val) = Len(Written)
  /\ \A i \in Idx(Written) : sorted.val[i] = InOrder[p[i]]
\* the first entry, in sorted order, that matches a supported key
Matching(i) == \E j \in Idx(supported) : KeyMatch(j, sorted.val[i].key)
FirstMatching(i) == i \in Idx(sorted.val) /\ Matching(i) /\ \A k \in 1..(i - 1) : ~Matching(k)

LangBefore(a, b) ==
  \/ Quality(a) > Quality(b)
  \/ Quality(a) = Quality(b) /\ ~a.key.sub.wild /\ b.key.sub.wild
LangTied(a, b) == ~LangBefore(a, b) /\ ~LangBefore(b, a)

\* C22: language entries are tried in descending quality, at equal quality
\* those with a region before those without, otherwise in written order; the
\* value returned is one matched by the first entry, in that order, that
\* matches anything.
C22_LanguageOrder ==
  (Answered /\ kind = "lang" /\ sorted.ok) =>
    /\ \E p \in Perms(Len(Written)) :
         /\ Rearranged(p)
         /\ \A a, b \in Idx(Written) :
              a < b => \/ LangBefore(InOrder[p[a]], InOrder[p[b]])
                       \/ LangTied(InOrder[p[a]], InOrder[p[b]]) /\ p[a] < p[b]
    /\ \A i \in Idx(sorted.val) : FirstMatching(i) =>
         \E j \in Idx(supported) :
           KeyMatch(j, sorted.val[i].key) /\ result.val = Some(supported[j].value)

\* C22 witness: an entry without region written before an entry with a
\* region, both of quality 1.0 and both matching: the value matched by the
\* second is returned, though the other value was registered first.
C22_Witness ==
  /\ Hit /\ kind = "lang" /\ Len(Written) = 2 /\ Len(supported) = 2
  /\ InOrder[1].key.sub.wild /\ ~InOrder[2].key.sub.wild
  /\ Quality(InOrder[1]) = Quality(InOrder[2])
  /\ KeyMatch(1, InOrder[1].key) /\ ~KeyMatch(1, InOrder[2].key)
  /\ KeyMatch(2, InOrder[2].key)
  /\ result.val.val = supported[2].value

EncBefore(a, b) == Quality(a) > Quality(b)

\* C23: encoding entries are tried in descending quality and otherwise in
\* written order, "*" like any token; when the first entry tried is "*", the
\* first registered encoding is returned.
C23_EncodingOrder ==
  (Answered /\ kind = "enc" /\ sorted.ok) =>
    /\ \E p \in Perms(Len(Written)) :
         /\ Rearranged(p)
         /\ \A a, b \in Idx(Written) :
              a < b => \/ EncBefore(InOrder[p[a]], InOrder[p[b]])
                       \/ Quality(InOrder[p[a]]) = Quality(InOrder[p[b]]) /\ p[a] < p[b]
    /\ (sorted.val[1].key.wild /\ supported # <<>>) => result.val = Some(supported[1].value)

\* C23 witness: "*" written before a token of the same quality that matches
\* the second registered encoding; the first registered encoding is returned.
C23_Witness ==
  /\ Hit /\ kind = "enc" /\ Len(Written) = 2 /\ Len(supported) = 2
  /\ InOrder[1].key.wild /\ ~InOrder[2].key.wild
  /\ Quality(InOrder[1]) = Quality(InOrder[2])
  /\ KeyMatch(2, InOrder[2].key) /\ ~KeyMatch(1, InOrder[2].key)
  /\ result.val.val = supported[1].value

(***************************************************************************)
(* Properties of unusual qualities.                                        *)
(***************************************************************************)
\* C24: whatever the qualities, NaN, infinities, negatives and values above
\* 1 included, a header whose entries parse is sorted, and in one order only:
\* descending in the total order of the qualities, entries of equal quality
\* (here equal on every other sort key too) in written order.
C24_TotalOrderOnQualities ==
  (Answered /\ \A i \in Idx(Written) : EntryOk(Written[i])) =>
    /\ sorted.ok
    /\ \E p \in Perms(Len(Written)) :
         /\ Rearranged(p)
         /\ \A a, b \in Idx(Written) :
              a < b => \/ Quality(InOrder[p[a]]) > Quality(InOrder[p[b]])
                       \/ Quality(InOrder[p[a]]) = Quality(InOrder[p[b]]) /\ p[a] < p[b]

\* C24 witness: an entry of quality -inf written before an entry of quality
\* NaN; the NaN entry is tried first.
C24_Witness ==
  /\ Answered /\ sorted.ok /\ Len(Written) = 2
  /\ InOrder[1].q = F32(TRUE, InfMag)
  /\ InOrder[2].q = F32(FALSE, NaNMag)
  /\ sorted.val = <<InOrder[2], InOrder[1]>>

\* C26: a header entry that matches a supported key makes negotiate return
\* a value, whatever its quality.
C26_QualityNeverExcludes ==
  (Answered /\ sorted.ok /\ \E i \in Idx(sorted.val) : Matching(i)) =>
    result.ok /\ result.val.some

\* C26 witness: the only matching entry has quality 0 and is written after
\* an entry of higher quality that matches nothing.
C26_Witness ==
  /\ Hit /\ Len(Written) = 2 /\ Len(supported) = 1
  /\ Quality(InOrder[1]) > 0 /\ ~KeyMatch(1, InOrder[1].key)
  /\ InOrder[2].q = F32(FALSE, 0) /\ KeyMatch(1, InOrder[2].key)

(***************************************************************************)
(* Further properties of negotiate.                                        *)
(***************************************************************************)
Malformed(i) == i \in Idx(Written) /\ ~EntryOk(Written[i])

\* C27: negotiate returns the error of the leftmost malformed entry of the
\* header, whatever the other entries and the supported list are.
C27_LeftmostError ==
  Answered =>
    \A i \in Idx(Written) : (Malformed(i) /\ Leading(i)) =>
      /\ ~result.ok
      /\ result.err = parse_header_entry(kind, Written[i]).err

\* C27 witness: two malformed entries with different errors, against a
\* non-empty list; the error is that of the first.
C27_Witness ==
  /\ Answered /\ Len(Written) = 2 /\ supported # <<>>
  /\ Malformed(1) /\ Malformed(2)
  /\ parse_header_entry(kind, Written[1]).err # parse_header_entry(kind, Written[2]).err
  /\ result.err = parse_header_entry(kind, Written[1]).err

\* C29: the value negotiate returns is the earliest registered among the
\* values whose key equals its key; a value with the key of an earlier one
\* is never returned.
C29_ShadowedNeverReturned ==
  Hit =>
    \E j \in Idx(supported) :
      /\ result.val.val = supported[j].value
      /\ \A k \in 1..(j - 1) : supported[k].key # supported[j].key

\* C29 witness: two media types written differently with the same key, the
\* header naming that key; the first is returned.
C29_Witness ==
  /\ Hit /\ kind = "ct" /\ Len(supported) = 2
  /\ supported[1].key = supported[2].key
  /\ supported[1].value.str # supported[2].value.str
  /\ supported[1].key.params # << >>
  /\ result.val.val = supported[1].value

\* a language entry whose tag is "*"
StarTag(e) == ValuePart(e) = <<"*">>
StarPrimary(j) == supported[j].key.main = <<"*">>

\* C30: the language entry "*" is parsed as the primary "*" without region;
\* it matches exactly the supported languages whose primary is "*", so a
\* header of such entries gives None when no supported primary is "*".
C30_LanguageStarIsLiteral ==
  (Answered /\ kind = "lang") =>
    /\ \A i \in Idx(Written) : (StarTag(Written[i]) /\ EntryOk(Written[i])) =>
         /\ InOrder[i].key = [main |-> <<"*">>, sub |-> Wildcard]
         /\ \A j \in Idx(supported) : KeyMatch(j, InOrder[i].key) <=> StarPrimary(j)
    /\ (/\ result.ok
        /\ \A i \in Idx(Written) : StarTag(Written[i])
        /\ \A j \in Idx(supported) : ~StarPrimary(j))
         => result.val = None

\* C30 witness: the header "*" against a registered language gives None.
C30_Witness ==
  /\ Returned /\ kind = "lang" /\ Len(supported) = 1
  /\ header = <<"*">>
  /\ result.val = None

(***************************************************************************)
(* Properties of the axum extractor.                                       *)
(***************************************************************************)
Extracted == status = "extracted"
\* negotiate was called and returned
Negotiated == Extracted /\ request.present /\ to_str(request.bytes).ok

\* C21: the extractor yields the negotiated value when there is one; the
\* first registered value, when one is registered, if the header is absent
\* or nothing matched; a rejection with status 400 if the header is no text
\* or negotiate failed.
C21_ExtractorOutcome ==
  Extracted =>
    /\ (Negotiated /\ result.ok /\ result.val.some) => response = Value(result.val.val)
    /\ ((~request.present \/ (Negotiated /\ result.ok /\ ~result.val.some))
          /\ supported # <<>>)
         => response = Value(supported[1].value)
    /\ ((request.present /\ ~to_str(request.bytes).ok) \/ (Negotiated /\ ~result.ok))
         => response.kind = "rejection" /\ response.status = 400

\* C21 witness: two values registered, a header that parses and matches
\* neither; the first value is yielded.
C21_Witness ==
  /\ Negotiated /\ result.ok /\ ~result.val.some
  /\ Len(supported) = 2 /\ Len(Written) = 2
  /\ response = Value(supported[1].value)

\* C28: the extractor never panics, whatever negotiator and request.
C28_ExtractorNeverPanics ==
  Extracted => response.kind # "panic"

(***************************************************************************)
(* Properties of the single-pass negotiators.                              *)
(***************************************************************************)
LegacyWritten == map_trim(split(header, ","))
LegacyQ(i) == quality(LegacyWritten[i]).val
LegacyReq(i) == parse_mime_with_params(LegacyWritten[i]).val
\* the registered values entry i matches
LegacyMatched(i) ==
  {j \in 1..Len(supported) :
     /\ matches_str(supported[j].key.main, LegacyReq(i).main)
     /\ matches_str(supported[j].key.sub, LegacyReq(i).sub)}
LegacyMatching == {i \in 1..Len(LegacyWritten) : LegacyMatched(i) # {}}
FirstRegistered(i) ==
  supported[CHOOSE j \in LegacyMatched(i) : \A k \in LegacyMatched(i) : j <= k].value
\* no matching entry has a higher quality, and none written before has the
\* same quality
HighestFirst(i) ==
  /\ i \in LegacyMatching
  /\ \A j \in LegacyMatching : ~f32_lt(LegacyQ(i), LegacyQ(j))
  /\ \A j \in LegacyMatching :
       j < i => ~(f32_le(LegacyQ(i), LegacyQ(j)) /\ f32_le(LegacyQ(j), LegacyQ(i)))

\* C25: v2 negotiate returns the first-registered value matched by the
\* highest-quality header entry that matches anything, the first written
\* among those of equal quality, and None when no entry matches.
C25_LegacyHighestQualityFirstWritten ==
  (status = "v2" /\ result.ok) =>
    IF LegacyMatching = {} THEN result.val = None
    ELSE \E i \in LegacyMatching :
           HighestFirst(i) /\ result.val = Some(FirstRegistered(i))

====
